---- MODULE Spec2Model ----
(***************************************************************************)
(* The context-retrieval engine of the localization API:                   *)
(*   TranslationMemory (src/database/vector_store.py) - the record store,  *)
(*   the similarity scorer, the ranking query, the brand-guideline query   *)
(*   and the statistics query; and its construction at server start-up     *)
(*   (src/api/translation_service.py, src/api/main.py).                    *)
(*                                                                         *)
(* Texts are sequences of one-character strings, so that lowercasing,      *)
(* tokenizing and the substring test are computed as the code computes     *)
(* them.  Scores are exact rationals <<numerator, denominator>>; on the    *)
(* texts of this model (at most two words each: Jaccard terms 0, 1/3,     *)
(* 1/2 and 1) the IEEE doubles the code computes compare and round to two  *)
(* decimals exactly as these rationals do.                                 *)
(***************************************************************************)
EXTENDS Integers, Sequences, FiniteSets, TLC

VARIABLES
    phase,      \* "starting" | "serving" | "failed": the module-level construction in main.py
    source,     \* the CSV input handed to TranslationMemory.__init__
    df,         \* self.df: the rows of the loaded table, in file order
    columns,    \* the column labels of self.df
    call,       \* the call in progress: its name and arguments ("idle" when none)
    similar,    \* the index labels of the frame `similar` (row positions in self.df)
    scores,     \* the column similarity_score of the frame `similar`, unrounded
    outcome,    \* "none" | "return" | "raise"
    ret         \* the value returned (or the name of the exception raised)

vars == <<phase, source, df, columns, call, similar, scores, outcome, ret>>

----------------------------------------------------------------------------
(* Bounds of the model *)

MaxLen == 3         \* longest text handed to the scorer on its own
MaxRecords == 3     \* longest store drawn from RecordPool
MaxTopK == 3        \* largest top_k of a ranking query

----------------------------------------------------------------------------
(* Python and pandas values *)

None == "None"      \* Optional[str] argument left out
NaN == "NaN"        \* an empty CSV cell, read by pandas as NaN

\* Truth value of an Optional[str] in `if content_type:` / `if product_category:`
Truthy(x) == x # None /\ x # ""

Range(s) == {s[i] : i \in DOMAIN s}

Min2(a, b) == IF a <= b THEN a ELSE b

RECURSIVE Gcd(_, _)
Gcd(a, b) == IF b = 0 THEN a ELSE Gcd(b, a % b)

\* Rationals with a positive denominator, kept in lowest terms
Rat(n, d) == LET g == Gcd(n, d) IN IF n = 0 THEN <<0, 1>> ELSE <<n \div g, d \div g>>
RatAdd(x, y) == Rat(x[1] * y[2] + y[1] * x[2], x[2] * y[2])
RatLess(x, y) == x[1] * y[2] < y[1] * x[2]
RatLeq(x, y) == x[1] * y[2] <= y[1] * x[2]
RatMin(x, y) == IF RatLeq(x, y) THEN x ELSE y

Zero == Rat(0, 1)
One == Rat(1, 1)

----------------------------------------------------------------------------
(* Texts *)

Alphabet == {"a", "b", "A", " "}

Strings(n) == UNION {[1..k -> Alphabet] : k \in 0..n}

\* str.lower(), character by character
LowerChar(c) == IF c = "A" THEN "a" ELSE c
Lower(text) == [i \in 1..Len(text) |-> LowerChar(text[i])]

\* the class \w of the pattern r'\w+'
IsWordChar(c) == c \in {"a", "b", "A"}

\* re.findall(r'\w+', text): the maximal runs of word characters, left to right
RECURSIVE FindAllWords(_, _, _)
FindAllWords(text, i, run) ==
    IF i > Len(text)
    THEN IF run = <<>> THEN <<>> ELSE <<run>>
    ELSE IF IsWordChar(text[i])
         THEN FindAllWords(text, i + 1, Append(run, text[i]))
         ELSE (IF run = <<>> THEN <<>> ELSE <<run>>) \o FindAllWords(text, i + 1, <<>>)

\* set(re.findall(r'\w+', text.lower()))
Words(text) == Range(FindAllWords(Lower(text), 1, <<>>))

\* Python's `text1 in text2` on strings
IsSubstring(text1, text2) ==
    \E off \in 0..(Len(text2) - Len(text1)) :
        \A i \in 1..Len(text1) : text2[off + i] = text1[i]

----------------------------------------------------------------------------
(* The similarity scorer *)

SUBSTRING_BOOST == Rat(3, 10)

\* len(words1 | words2), counted as the sum of the sizes: a mutant
UnionSizeSum(words1, words2) == Cardinality(words1) + Cardinality(words2)

UnionSize(words1, words2) == Cardinality(words1 \cup words2)

\* intersection / union if union > 0 else 0
Jaccard(words1, words2) ==
    LET intersection == Cardinality(words1 \cap words2)
        union == UnionSize(words1, words2)
    IN  IF union > 0 THEN Rat(intersection, union) ELSE Zero

\* the substring test looking one way only: a mutant
SubstringOneWay(text1, text2) == IsSubstring(text1, text2)

\* text1 in text2 or text2 in text1
SubstringMatch(text1, text2) == IsSubstring(text1, text2) \/ IsSubstring(text2, text1)

\* the cap left out: a mutant
CapNone(base_similarity) == base_similarity

\* min(base_similarity, 1.0)
Cap(base_similarity) == RatMin(base_similarity, One)

_calculate_similarity(text1, text2) ==
    LET words1 == Words(text1)
        words2 == Words(text2)
    IN  IF words1 = {} \/ words2 = {}
        THEN Zero
        ELSE LET base == Jaccard(words1, words2)
                 boosted == IF SubstringMatch(text1, text2)
                            THEN RatAdd(base, SUBSTRING_BOOST)
                            ELSE base
             IN  Cap(boosted)

----------------------------------------------------------------------------
(* The record store *)

RequiredColumns ==
    {"source_text", "target_language", "translation",
     "content_type", "product_category", "brand_notes"}

Row(text, lang, tr, ct, pc, notes) ==
    [source_text |-> text, target_language |-> lang, translation |-> tr,
     content_type |-> ct, product_category |-> pc, brand_notes |-> notes]

\* Rows a translation_memory.csv can hold; an empty cell is read as NaN
RecordPool ==
    { Row(<<"A", " ", "b">>, "French", "t1", "marketing", "iPhone", "formal"),
      Row(<<"a">>,           "French", "t2", NaN,         "iPad",   "short"),
      Row(<<"b">>,           "French", "t3", "marketing", "iPad",   NaN),
      Row(<<"a", " ", "b">>, "french", "t4", "marketing", "iPhone", "casual"),
      Row(<<"a">>,           "French", "t5", "technical", "iPhone", "formal"),
      Row(<<"b", " ", "a">>, "French", "t6", "marketing", NaN,      "short") }

\* the cap of get_brand_guidelines
GUIDELINE_LIMIT == 10

\* A store with more distinct brand notes than the cap
CatalogueNotes ==
    <<"g01", "g02", "g03", "g04", "g05", "g06",
      "g07", "g08", "g09", "g10", "g11", "g12">>

Catalogue(n) ==
    [k \in 1..n |->
        Row(<<"a">>, "French", "t", "marketing",
            IF k % 2 = 1 THEN "iPhone" ELSE "iPad", CatalogueNotes[k])]

ShortStores == UNION {[1..n -> RecordPool] : n \in 0..MaxRecords}

LongStores ==
    { Catalogue(GUIDELINE_LIMIT + 1),
      Catalogue(GUIDELINE_LIMIT + 2),
      <<Catalogue(1)[1], Catalogue(1)[1]>> \o Catalogue(GUIDELINE_LIMIT + 1) }

Stores == ShortStores \cup LongStores

----------------------------------------------------------------------------
(* Frames are sequences of index labels (row positions in self.df) *)

Index(n) == [i \in 1..n |-> i]

\* the language filter left out: a mutant
LanguageFilterNone(rows, target_language) == Index(Len(rows))

\* self.df[self.df['target_language'] == target_language]
LanguageFilter(rows, target_language) ==
    SelectSeq(Index(Len(rows)), LAMBDA i : rows[i].target_language = target_language)

CONTENT_BOOST == Rat(2, 10)
PRODUCT_BOOST == Rat(3, 10)

\* the boosted score capped at 1.0 again: a mutant
CombinedScoreClamped(row, source_text, content_type, product_category) ==
    LET text == _calculate_similarity(Lower(source_text), Lower(row.source_text))
        withContent ==
            IF Truthy(content_type) /\ row.content_type = content_type
            THEN RatAdd(text, CONTENT_BOOST) ELSE text
        withProduct ==
            IF Truthy(product_category) /\ row.product_category = product_category
            THEN RatAdd(withContent, PRODUCT_BOOST) ELSE withContent
    IN  RatMin(withProduct, One)

\* the column similarity_score after the boosts, for one row
CombinedScore(row, source_text, content_type, product_category) ==
    LET text == _calculate_similarity(Lower(source_text), Lower(row.source_text))
        withContent ==
            IF Truthy(content_type)
            THEN RatAdd(text, IF row.content_type = content_type
                              THEN CONTENT_BOOST ELSE Zero)
            ELSE text
    IN  IF Truthy(product_category)
        THEN RatAdd(withContent, IF row.product_category = product_category
                                 THEN PRODUCT_BOOST ELSE Zero)
        ELSE withContent

RemoveAt(s, k) == SubSeq(s, 1, k - 1) \o SubSeq(s, k + 1, Len(s))

\* filtered_df with its column similarity_score: one entry per row, in store
\* order, holding the row's index label and its score
RECURSIVE Scored(_, _, _, _, _)
Scored(rows, frame, source_text, content_type, product_category) ==
    IF frame = <<>>
    THEN <<>>
    ELSE <<[index |-> frame[1],
            similarity_score |-> CombinedScore(rows[frame[1]], source_text,
                                               content_type, product_category)]>>
         \o Scored(rows, Tail(frame), source_text, content_type, product_category)

\* the first position holding the largest similarity_score
FirstLargest(frame) ==
    CHOOSE k \in 1..Len(frame) :
        /\ \A j \in 1..Len(frame) :
              ~RatLess(frame[k].similarity_score, frame[j].similarity_score)
        /\ \A j \in 1..(k - 1) :
              RatLess(frame[j].similarity_score, frame[k].similarity_score)

\* the last position holding the largest similarity_score
LastLargest(frame) ==
    CHOOSE k \in 1..Len(frame) :
        /\ \A j \in 1..Len(frame) :
              ~RatLess(frame[k].similarity_score, frame[j].similarity_score)
        /\ \A j \in (k + 1)..Len(frame) :
              RatLess(frame[j].similarity_score, frame[k].similarity_score)

\* the n first rows in descending order, first occurrence first
RECURSIVE NLargestKeepFirst(_, _)
NLargestKeepFirst(frame, n) ==
    IF n <= 0 \/ frame = <<>>
    THEN <<>>
    ELSE LET best == FirstLargest(frame)
         IN  <<frame[best]>> \o NLargestKeepFirst(RemoveAt(frame, best), n - 1)

\* nlargest that sorts and forgets to cut: a mutant
RECURSIVE NLargestUncut(_, _)
NLargestUncut(frame, n) ==
    IF frame = <<>>
    THEN <<>>
    ELSE LET best == FirstLargest(frame)
         IN  <<frame[best]>> \o NLargestUncut(RemoveAt(frame, best), n)

\* nlargest with keep='last': a mutant
RECURSIVE NLargestKeepLast(_, _)
NLargestKeepLast(frame, n) ==
    IF n <= 0 \/ frame = <<>>
    THEN <<>>
    ELSE LET best == LastLargest(frame)
         IN  <<frame[best]>> \o NLargestKeepLast(RemoveAt(frame, best), n - 1)

\* the cut taken as the Python slice [:n], which for a negative n keeps all
\* rows but the last -n: a mutant
NLargestSlice(frame, n) ==
    IF n >= 0
    THEN NLargestKeepFirst(frame, n)
    ELSE NLargestKeepFirst(frame, Len(frame) + n)

\* DataFrame.nlargest(n, 'similarity_score'), keep='first': the first n rows in
\* descending order of the column, the first occurrence first among equal
\* values; no row when n <= 0
RECURSIVE NLargest(_, _)
NLargest(frame, n) ==
    IF n <= 0 \/ frame = <<>>
    THEN <<>>
    ELSE LET best == FirstLargest(frame)
         IN  <<frame[best]>> \o NLargest(RemoveAt(frame, best), n - 1)

\* round(x, 2) of a non-negative score, reported as a rational in hundredths
Round2(x) ==
    LET q == (100 * x[1]) \div x[2]
        r == (100 * x[1]) % x[2]
    IN  IF 2 * r > x[2] THEN Rat(q + 1, 100)
        ELSE IF 2 * r = x[2] THEN Rat(q + (q % 2), 100)
        ELSE Rat(q, 100)

\* one entry of `results`
ResultEntry(row, score) ==
    [source_text |-> row.source_text, translation |-> row.translation,
     content_type |-> row.content_type, product_category |-> row.product_category,
     brand_notes |-> row.brand_notes, similarity_score |-> Round2(score)]

\* the loop over similar.iterrows()
RECURSIVE Results(_, _)
Results(rows, frame) ==
    IF frame = <<>>
    THEN <<>>
    ELSE <<ResultEntry(rows[frame[1].index], frame[1].similarity_score)>>
         \o Results(rows, Tail(frame))

\* one column of a frame, as a sequence
RECURSIVE ColumnOf(_, _)
ColumnOf(frame, c) ==
    IF frame = <<>> THEN <<>> ELSE <<frame[1][c]>> \o ColumnOf(Tail(frame), c)

ResultColumns ==
    {"source_text", "translation", "content_type", "product_category", "brand_notes"}

\* how a call ends; `scored` tells whether it assigned the column
\* similarity_score (line 46), `scores` is that column of the frame `similar`
Returns(frame, value) ==
    [outcome |-> "return", similar |-> frame, ret |-> value, scored |-> FALSE, scores |-> <<>>]
Raises(exception) ==
    [outcome |-> "raise", similar |-> <<>>, ret |-> exception, scored |-> FALSE, scores |-> <<>>]

\* without the copy of line 40 the column lands in self.df: a mutant
StoreColumnsShared(cols) == cols \cup {"similarity_score"}

\* the labels of self.df after line 46: filtered_df is a copy (line 40), so
\* the new column similarity_score is its own and self.df keeps its labels
StoreColumnsAfterScoring(cols) == cols

\* TranslationMemory.find_similar_translations; a column label the table lacks
\* raises KeyError where the code first reads it
find_similar_translations(rows, cols, source_text, target_language, content_type, product_category, top_k) ==
    IF "target_language" \notin cols THEN Raises("KeyError")
    ELSE LET filtered_df == LanguageFilter(rows, target_language) IN
    IF Len(filtered_df) = 0 THEN Returns(<<>>, <<>>)
    ELSE IF "source_text" \notin cols THEN Raises("KeyError")
    ELSE IF Truthy(content_type) /\ "content_type" \notin cols
         THEN [Raises("KeyError") EXCEPT !.scored = TRUE]
    ELSE IF Truthy(product_category) /\ "product_category" \notin cols
         THEN [Raises("KeyError") EXCEPT !.scored = TRUE]
    ELSE LET scored == Scored(rows, filtered_df, source_text, content_type, product_category)
             frame == NLargest(scored, top_k)
         IN  IF frame # <<>> /\ ~(ResultColumns \subseteq cols)
             THEN [Raises("KeyError") EXCEPT !.scored = TRUE]
             ELSE [Returns(ColumnOf(frame, "index"), Results(rows, frame))
                      EXCEPT !.scored = TRUE,
                             !.scores = ColumnOf(frame, "similarity_score")]

----------------------------------------------------------------------------
(* Brand guidelines and statistics *)

\* Series.dropna()
DropNa(s) == SelectSeq(s, LAMBDA x : x # NaN)

\* unique() left out: a mutant
UniqueNone(s) == s

\* Series.unique(): the distinct values in order of first appearance
Unique(s) ==
    LET first == SelectSeq(Index(Len(s)), LAMBDA i : \A j \in 1..(i - 1) : s[j] # s[i])
    IN  [k \in 1..Len(first) |-> s[first[k]]]

Slice(s, n) == SubSeq(s, 1, Min2(n, Len(s)))

\* the product filter applied even when it matches nothing: a mutant
ProductNarrowAlways(rows, filtered_df, product_category) ==
    IF Truthy(product_category)
    THEN SelectSeq(filtered_df, LAMBDA i : rows[i].product_category = product_category)
    ELSE filtered_df

\* lines 117-120: narrow by product only when that leaves a row
ProductNarrow(rows, filtered_df, product_category) ==
    IF Truthy(product_category)
    THEN LET product_df ==
                 SelectSeq(filtered_df, LAMBDA i : rows[i].product_category = product_category)
         IN  IF Len(product_df) > 0 THEN product_df ELSE filtered_df
    ELSE filtered_df

\* TranslationMemory.get_brand_guidelines
get_brand_guidelines(rows, cols, target_language, product_category) ==
    IF "target_language" \notin cols THEN Raises("KeyError")
    ELSE IF Truthy(product_category) /\ "product_category" \notin cols THEN Raises("KeyError")
    ELSE IF "brand_notes" \notin cols THEN Raises("KeyError")
    ELSE LET filtered_df == ProductNarrow(rows, LanguageFilter(rows, target_language),
                                          product_category)
             notes == [k \in 1..Len(filtered_df) |-> rows[filtered_df[k]].brand_notes]
             guidelines == Unique(DropNa(notes))
         IN  Returns(<<>>, Slice(guidelines, GUIDELINE_LIMIT))

\* TranslationMemory.get_stats
get_stats(rows, cols) ==
    IF ~({"target_language", "content_type", "product_category"} \subseteq cols)
    THEN Raises("KeyError")
    ELSE Returns(<<>>,
                 [total_translations |-> Len(rows),
                  languages |-> Unique(ColumnOf(rows, "target_language")),
                  content_types |-> Unique(ColumnOf(rows, "content_type")),
                  product_categories |-> Unique(ColumnOf(rows, "product_category"))])

----------------------------------------------------------------------------
(* Calls return to the caller, which consumes the value *)

Idle == [op |-> "idle"]

Return ==
    /\ call.op # "idle"
    /\ call' = Idle
    /\ similar' = <<>>
    /\ scores' = <<>>
    /\ outcome' = "none"
    /\ ret' = <<>>
    /\ UNCHANGED <<phase, source, df, columns>>

----------------------------------------------------------------------------
(* The queries, as the server's callers make them *)

QueryTexts == {<<>>, <<"A">>, <<"a", " ", "b">>}
Languages == {"French", "french"}
ContentTypes == {None, "marketing"}
ProductCategories == {None, "iPhone", "Watch"}
TopKs == (-1)..MaxTopK

FindSimilarTranslations ==
    /\ phase = "serving"
    /\ call.op = "idle"
    /\ \E source_text \in QueryTexts, target_language \in Languages,
          content_type \in ContentTypes, product_category \in ProductCategories,
          top_k \in TopKs :
        \E r \in {find_similar_translations(df, columns, source_text, target_language,
                                               content_type, product_category, top_k)} :
            /\ call' = [op |-> "find_similar_translations", source_text |-> source_text,
                        target_language |-> target_language, content_type |-> content_type,
                        product_category |-> product_category, top_k |-> top_k]
            /\ similar' = r.similar
            /\ scores' = r.scores
            /\ outcome' = r.outcome
            /\ ret' = r.ret
            /\ columns' = IF r.scored THEN StoreColumnsAfterScoring(columns) ELSE columns
    /\ UNCHANGED <<phase, source, df>>

GetBrandGuidelines ==
    /\ phase = "serving"
    /\ call.op = "idle"
    /\ \E target_language \in Languages, product_category \in ProductCategories :
        \E r \in {get_brand_guidelines(df, columns, target_language, product_category)} :
            /\ call' = [op |-> "get_brand_guidelines", target_language |-> target_language,
                        product_category |-> product_category]
            /\ similar' = r.similar
            /\ scores' = r.scores
            /\ outcome' = r.outcome
            /\ ret' = r.ret
    /\ UNCHANGED <<phase, source, df, columns>>

GetStats ==
    /\ phase = "serving"
    /\ call.op = "idle"
    /\ \E r \in {get_stats(df, columns)} :
           /\ call' = [op |-> "get_stats"]
           /\ similar' = r.similar
           /\ scores' = r.scores
           /\ outcome' = r.outcome
           /\ ret' = r.ret
    /\ UNCHANGED <<phase, source, df, columns>>

\* A store loaded from a well-formed table, before the first query
Init ==
    /\ phase = "serving"
    /\ df \in Stores
    /\ source = [kind |-> "table", columns |-> RequiredColumns, rows |-> df]
    /\ columns = RequiredColumns
    /\ call = Idle
    /\ similar = <<>>
    /\ scores = <<>>
    /\ outcome = "none"
    /\ ret = <<>>

Next == FindSimilarTranslations \/ GetBrandGuidelines \/ GetStats \/ Return

Spec == Init /\ [][Next]_vars

----------------------------------------------------------------------------
(* Start-up: main.py builds the TranslationService at import, whose          *)
(* constructor builds the TranslationMemory from the CSV file                *)

MaxSourceRows == 1  \* longest table offered at start-up

\* the header of a table: complete, or lacking one required column
Headers == {RequiredColumns} \cup {RequiredColumns \ {c} : c \in RequiredColumns}

Sources ==
    {[kind |-> "missing"], [kind |-> "unparsable"]}
    \cup {[kind |-> "table", columns |-> h, rows |-> rows] :
            h \in Headers, rows \in UNION {[1..n -> RecordPool] : n \in 0..MaxSourceRows}}

\* pd.read_csv(csv_path): FileNotFoundError for a missing file, ParserError or
\* EmptyDataError for text it cannot tokenize, otherwise the table with
\* whatever columns its header names
read_csv(src) ==
    IF src.kind = "missing" THEN Raises("FileNotFoundError")
    ELSE IF src.kind = "unparsable" THEN Raises("ParserError")
    ELSE Returns(<<>>, [columns |-> src.columns, rows |-> src.rows])

\* TranslationMemory.__init__, run by TranslationService() at the import of
\* main.py: an exception ends the process before the app exists
LoadTranslationMemory ==
    /\ phase = "starting"
    /\ \E r \in {read_csv(source)} :
        IF r.outcome = "raise"
        THEN /\ phase' = "failed"
             /\ UNCHANGED <<df, columns>>
        ELSE /\ phase' = "serving"
             /\ df' = r.ret.rows
             /\ columns' = r.ret.columns
    /\ UNCHANGED <<source, call, similar, scores, outcome, ret>>

InitStartup ==
    /\ phase = "starting"
    /\ source \in Sources
    /\ df = <<>>
    /\ columns = {}
    /\ call = Idle
    /\ similar = <<>>
    /\ scores = <<>>
    /\ outcome = "none"
    /\ ret = <<>>

NextStartup ==
    LoadTranslationMemory \/ FindSimilarTranslations \/ GetBrandGuidelines \/ GetStats \/ Return

SpecStartup == InitStartup /\ [][NextStartup]_vars

----------------------------------------------------------------------------
(* The scorer on its own *)

\* TranslationMemory._calculate_similarity(text1, text2), called on its own
CalculateSimilarity ==
    /\ call.op = "idle"
    /\ \E text1 \in Strings(MaxLen), text2 \in Strings(MaxLen) :
        /\ call' = [op |-> "_calculate_similarity", text1 |-> text1, text2 |-> text2]
        /\ ret' = _calculate_similarity(text1, text2)
    /\ outcome' = "return"
    /\ UNCHANGED <<phase, source, df, columns, similar, scores>>

InitScorer ==
    /\ phase = "serving"
    /\ source = [kind |-> "table", columns |-> RequiredColumns, rows |-> <<>>]
    /\ df = <<>>
    /\ columns = RequiredColumns
    /\ call = Idle
    /\ similar = <<>>
    /\ scores = <<>>
    /\ outcome = "none"
    /\ ret = <<>>

NextScorer == CalculateSimilarity \/ Return

SpecScorer == InitScorer /\ [][NextScorer]_vars

----------------------------------------------------------------------------
(* Properties of the ranking query *)

Max2(a, b) == IF a >= b THEN a ELSE b

Ranked == call.op = "find_similar_translations" /\ outcome = "return"

\* the rows of the store whose target_language is the query's, character for character
Matching == {i \in 1..Len(df) : df[i].target_language = call.target_language}

\* the score a stored row gets under the query in progress
ScoreOf(i) == CombinedScore(df[i], call.source_text, call.content_type, call.product_category)

RatEq(x, y) == x[1] * y[2] = y[1] * x[2]

\* C1 as stated: a ranking query returns at most top_k candidates, exactly
\* min(top_k, number of rows of the query's language)
RankLengthIsMinTopK ==
    Ranked =>
        /\ Len(ret) <= call.top_k
        /\ Len(ret) = Min2(call.top_k, Cardinality(Matching))

\* C1 amended: a ranking query returns at most max(top_k, 0) candidates,
\* exactly min(max(top_k, 0), number of rows of the query's language)
RankLengthIsMinClampedTopK ==
    Ranked =>
        /\ Len(ret) <= Max2(call.top_k, 0)
        /\ Len(ret) = Min2(Max2(call.top_k, 0), Cardinality(Matching))
        /\ Len(similar) = Len(ret)

\* top_k cuts the rows of the language short
RankCutWitness ==
    /\ Ranked
    /\ call.top_k >= 1
    /\ Cardinality(Matching) > call.top_k
    /\ Len(ret) = call.top_k

\* the candidates are the rows `similar` names, in descending order of combined
\* score, rows of equal score in store order; a row left out scores no more
\* than any row returned, and comes later in the store than a returned row of
\* equal score
OrderedStable ==
    /\ \A k \in 1..Len(ret) :
          /\ similar[k] \in Matching
          /\ ret[k].source_text = df[similar[k]].source_text
          /\ ret[k].translation = df[similar[k]].translation
          /\ ret[k].similarity_score = Round2(ScoreOf(similar[k]))
    /\ \A k, l \in 1..Len(similar) :
          k < l =>
              \/ RatLess(ScoreOf(similar[l]), ScoreOf(similar[k]))
              \/ /\ RatEq(ScoreOf(similar[l]), ScoreOf(similar[k]))
                 /\ similar[k] < similar[l]
    /\ \A i \in Range(similar), j \in Matching \ Range(similar) :
          \/ RatLess(ScoreOf(j), ScoreOf(i))
          \/ /\ RatEq(ScoreOf(j), ScoreOf(i))
             /\ i < j

\* the candidates are the first rows of the language, in store order, each
\* reported with score 0.0
FirstRowsScoredZero ==
    \A k \in 1..Len(similar) :
        /\ Cardinality({i \in Matching : i < similar[k]}) = k - 1
        /\ ret[k].similarity_score = Zero

\* a supplied filter equals the row's tag, so the row is boosted
Boosted(i) ==
    \/ Truthy(call.content_type) /\ df[i].content_type = call.content_type
    \/ Truthy(call.product_category) /\ df[i].product_category = call.product_category

\* C2 as stated: descending combined score, equal scores in store order, the
\* earlier of two equal rows selected first; and every query with an empty
\* text returns the first min(top_k, n) rows of the language in store order,
\* each with score 0.0
RankOrderedStableEmptyTextZero ==
    Ranked =>
        /\ OrderedStable
        /\ call.source_text = <<>> => FirstRowsScoredZero

\* C2 amended: descending combined score, equal scores in store order, the
\* earlier of two equal rows selected first; and a query with an empty text
\* that boosts no row of the language returns the first min(top_k, n) rows of
\* the language in store order, each with score 0.0
RankOrderedStable ==
    Ranked =>
        /\ OrderedStable
        /\ (call.source_text = <<>> /\ \A i \in Matching : ~Boosted(i))
              => FirstRowsScoredZero

\* two returned rows tie on a positive score, and top_k cuts between tied rows
RankTieWitness ==
    /\ Ranked
    /\ call.source_text # <<>>
    /\ \E k, l \in 1..Len(similar) :
          /\ k < l
          /\ RatEq(ScoreOf(similar[k]), ScoreOf(similar[l]))
          /\ RatLess(Zero, ScoreOf(similar[k]))
    /\ \E i \in Range(similar), j \in Matching \ Range(similar) :
          RatEq(ScoreOf(i), ScoreOf(j))

\* C3: every candidate is a store row whose target_language equals the
\* query's exactly, and no candidate is returned when no row has it
RankLanguageExact ==
    Ranked =>
        /\ \A k \in 1..Len(ret) :
              /\ similar[k] \in 1..Len(df)
              /\ df[similar[k]].target_language = call.target_language
              /\ ret[k].source_text = df[similar[k]].source_text
              /\ ret[k].translation = df[similar[k]].translation
              /\ ret[k].content_type = df[similar[k]].content_type
              /\ ret[k].product_category = df[similar[k]].product_category
              /\ ret[k].brand_notes = df[similar[k]].brand_notes
        /\ Matching = {} => ret = <<>>

\* candidates are returned from a store that also holds rows of another
\* language, among them one whose language differs from the query's
RankLanguageWitness ==
    /\ Ranked
    /\ Len(ret) >= 1
    /\ call.top_k > Cardinality(Matching)
    /\ \E i \in 1..Len(df) : df[i].target_language # call.target_language

\* C4: every reported similarity_score lies in [0.0, 1.0], and a row whose
\* source text is the query text and whose product_category is the query's is
\* reported with 1.0
ReportedScoreInUnitInterval ==
    Ranked =>
        \A k \in 1..Len(ret) :
            /\ RatLeq(Zero, ret[k].similarity_score)
            /\ RatLeq(ret[k].similarity_score, One)
            /\ (/\ df[similar[k]].source_text = call.source_text
                /\ df[similar[k]].product_category = call.product_category)
               => ret[k].similarity_score = One

----------------------------------------------------------------------------
(* Properties of the similarity scorer *)

Scored2 == call.op = "_calculate_similarity" /\ outcome = "return"

\* C5: the scorer's value lies in [0.0, 1.0], the substring boost included
ScoreInUnitInterval ==
    Scored2 => RatLeq(Zero, ret) /\ RatLeq(ret, One)

\* the substring boost lifts a Jaccard term above 7/10, and the cap applies
ScoreCappedWitness ==
    /\ Scored2
    /\ call.text1 # call.text2
    /\ SubstringMatch(call.text1, call.text2)
    /\ Words(call.text1) = Words(call.text2)
    /\ Words(call.text1) # {}
    /\ ret = One

\* C6 as stated: every string scores 1.0 against itself
SelfScoreIsOne ==
    (Scored2 /\ call.text1 = call.text2) => ret = One

\* C6 amended: a string with at least one word token scores 1.0 against
\* itself; a string with none (the empty string, or separators only) scores 0.0
SelfScoreIsOneWithWords ==
    (Scored2 /\ call.text1 = call.text2) =>
        ret = (IF \E i \in 1..Len(call.text1) : IsWordChar(call.text1[i]) THEN One ELSE Zero)

\* a text of two words scored against itself
SelfScoreWitness ==
    /\ Scored2
    /\ call.text1 = call.text2
    /\ Cardinality(Words(call.text1)) = 2
    /\ ret = One

\* C7: the scorer gives the same value with its arguments exchanged
ScoreSymmetric ==
    Scored2 => ret = _calculate_similarity(call.text2, call.text1)

\* only the first text is a substring of the second, and the boost was added
ScoreSymmetricWitness ==
    /\ Scored2
    /\ IsSubstring(call.text1, call.text2)
    /\ ~IsSubstring(call.text2, call.text1)
    /\ ret = Rat(4, 5)

----------------------------------------------------------------------------
(* Properties of the guideline query *)

Guided == call.op = "get_brand_guidelines" /\ outcome = "return"

\* the rows of the language that carry the supplied product_category
ProductMatching ==
    {i \in Matching : Truthy(call.product_category)
                      /\ df[i].product_category = call.product_category}

\* the rows whose notes the claim lets through
Contributing == IF ProductMatching # {} THEN ProductMatching ELSE Matching

\* the first contributing row that carries the note
FirstSeen(note) ==
    CHOOSE i \in Contributing :
        /\ df[i].brand_notes = note
        /\ \A j \in Contributing : df[j].brand_notes = note => i <= j

\* C8: the guidelines hold no entry twice, no empty or absent note, keep the
\* notes in first-seen store order, and number at most 10
GuidelinesDistinctOrderedCapped ==
    Guided =>
        /\ Len(ret) <= 10
        /\ \A k \in 1..Len(ret) :
              /\ ret[k] # NaN
              /\ ret[k] # ""
              /\ \E i \in 1..Len(df) : df[i].brand_notes = ret[k]
        /\ \A k, l \in 1..Len(ret) :
              k < l => /\ ret[k] # ret[l]
                       /\ FirstSeen(ret[k]) < FirstSeen(ret[l])

\* more than 10 distinct notes, one of them carried by several rows
GuidelinesCapWitness ==
    /\ Guided
    /\ Len(ret) = 10
    /\ Cardinality({df[i].brand_notes : i \in Contributing} \ {NaN}) > 10
    /\ \E i, j \in Contributing : i # j /\ df[i].brand_notes = df[j].brand_notes

\* C9: when rows of the language carry the supplied product_category only
\* they contribute notes; when none does, the notes are those of all rows of
\* the language, so the product filter alone never empties the result
GuidelinesProductFallback ==
    Guided =>
        /\ Range(ret) \subseteq {df[i].brand_notes : i \in Contributing}
        /\ Len(ret) < 10 =>
              Range(ret) = {df[i].brand_notes : i \in Contributing} \ {NaN}
        /\ (Truthy(call.product_category) /\ ProductMatching = {}) =>
              /\ ret = get_brand_guidelines(df, columns, call.target_language, None).ret
              /\ (\E i \in Matching : df[i].brand_notes # NaN) => ret # <<>>

\* a product_category no row of the language carries, and notes returned
GuidelinesFallbackWitness ==
    /\ Guided
    /\ Truthy(call.product_category)
    /\ ProductMatching = {}
    /\ \E i \in Matching : df[i].product_category # NaN
    /\ Len(ret) >= 2

\* the product filter narrows: a row of the language is left out
GuidelinesNarrowWitness ==
    /\ Guided
    /\ ProductMatching # {}
    /\ ProductMatching # Matching
    /\ \E i \in Matching \ ProductMatching : df[i].brand_notes \notin Range(ret) \cup {NaN}

----------------------------------------------------------------------------
(* Properties of start-up *)

Served ==
    /\ call.op \in {"find_similar_translations", "get_brand_guidelines", "get_stats"}
    /\ outcome = "return"

\* C10: a query is served only from a table read whole and with every
\* required column; a missing or unparsable source, or one lacking a required
\* column, fails the load and serves no query
ServedOnlyAfterCompleteLoad ==
    Served => /\ source.kind = "table"
              /\ source.columns = RequiredColumns

\* a missing or unparsable source fails the load and serves no query
UnreadableSourceNeverServes ==
    source.kind # "table" => phase # "serving" /\ call.op = "idle"

----------------------------------------------------------------------------
(* Properties of the queries as a whole *)

NonPositiveTopKReturnsEmpty ==
    (call.op = "find_similar_translations" /\ call.top_k <= 0) =>
        /\ outcome = "return"
        /\ ret = <<>>
        /\ similar = <<>>

\* a negative top_k against several rows of the query's language
NegativeTopKWitness ==
    /\ Ranked
    /\ call.top_k < 0
    /\ Cardinality(Matching) >= 2
    /\ ret = <<>>

TwoTenths == <<1, 5>>
ThreeTenths == <<3, 10>>

\* the score C13 states for a stored row: the scorer on the lowercased texts,
\* plus 0.2 for an equal supplied content_type, plus 0.3 for an equal supplied
\* product_category
StatedScore(i) ==
    LET text == _calculate_similarity(Lower(call.source_text), Lower(df[i].source_text))
        content == IF call.content_type # None /\ df[i].content_type = call.content_type
                   THEN TwoTenths ELSE Zero
        product == IF call.product_category # None
                      /\ df[i].product_category = call.product_category
                   THEN ThreeTenths ELSE Zero
    IN  RatAdd(RatAdd(text, content), product)

\* C13: the score each row is ranked by is the scorer's value on the lowercased
\* texts plus 0.2 for an equal supplied content_type plus 0.3 for an equal
\* supplied product_category, each boost on its own, the sum left uncapped
CombinedScoreIsSumOfBoosts ==
    Ranked =>
        /\ Len(scores) = Len(similar)
        /\ \A k \in 1..Len(similar) :
              /\ scores[k] = StatedScore(similar[k])
              /\ ret[k].similarity_score = Round2(StatedScore(similar[k]))

\* both boosts on top of a text score of 1.0: the score reaches 1.5; and a
\* row that gets one boost only is ranked in the same call
BothBoostsWitness ==
    /\ Ranked
    /\ \E k \in 1..Len(scores) : scores[k] = <<3, 2>>
    /\ \E k \in 1..Len(scores) :
          /\ df[similar[k]].content_type = call.content_type
          /\ df[similar[k]].product_category # call.product_category
          /\ RatLess(One, scores[k])

====
